---- MODULE Spec2Model ----
(***************************************************************************)
(* Model of the transcription script src/文字おこし.py: the time codec      *)
(* (srt_time), the segment catalog (natural_sort_key and the sort in       *)
(* segment_audio_from_video), the caption assembler                        *)
(* (build_srt_from_subwords) and the pipeline driver (main).               *)
(*                                                                         *)
(* Time is exact and counted in ticks of a quarter millisecond, so that a  *)
(* value may fall exactly on, below or above a half millisecond.  Text is  *)
(* a sequence of one-character strings, so that trimming and joining are   *)
(* computed character by character.                                        *)
(***************************************************************************)
EXTENDS Integers, Sequences, FiniteSets, TLC

VARIABLES
    \* ---- main(): the pipeline driver
    pc,             \* position in main()
    err,            \* the exception that ended the run, "none" while running
    keep_temp,      \* args.keep_temp
    segment_sec,    \* args.segment_sec, whole seconds
    dir,            \* the files of seg_dir matching seg_*.wav (set of names)
    segs,           \* the sorted list segment_audio_from_video returned
    i,              \* enumerate index of the per-segment loop
    rets,           \* history of the loop: wav_path, offset, ret and the entries of each iteration
    all_text_parts, \* main's all_text_parts
    srt_entries,    \* main's srt_entries
    out_txt,        \* content of the transcript file, NoFile until written
    out_srt,        \* lines of the subtitle file, NoFile until written
    tmp,            \* the TemporaryDirectory: "none", "exists", "deleted"
    dst,            \* the <stem>_reazon_tmp directory: "absent", "stale", "partial", "copy"
    \* ---- one call of build_srt_from_subwords, iteration by iteration
    asm_pc,         \* "loop" while tokens are consumed, "returned" after the return
    asm_offset,     \* segment_offset of the call
    asm_subwords,   \* the subwords consumed so far
    asm,            \* cur_tokens, cur_start, cur_last and entries of the call
    \* ---- one call of srt_time
    seconds,        \* the argument, in ticks
    stamp           \* the returned string, NoStamp before the call

vars == <<pc, err, keep_temp, segment_sec, dir, segs, i, rets, all_text_parts,
          srt_entries, out_txt, out_srt, tmp, dst,
          asm_pc, asm_offset, asm_subwords, asm, seconds, stamp>>

mainVars == <<pc, err, keep_temp, segment_sec, dir, segs, i, rets, all_text_parts,
              srt_entries, out_txt, out_srt, tmp, dst>>
asmVars == <<asm_pc, asm_offset, asm_subwords, asm>>
timeVars == <<seconds, stamp>>

-----------------------------------------------------------------------------
(* Units and program constants                                             *)

TicksPerSec == 4 * 1000
TicksPerMs == TicksPerSec \div 1000

\* max_line_sec: float = 4.0, in ticks
max_line_sec == 16000
\* max_chars: int = 26
max_chars == 26
\* pad_end_sec: float = 0.25, in ticks
pad_end_sec == 1000

\* Python's None for cur_start and cur_last (every real time is >= 0)
None == 0 - 1

-----------------------------------------------------------------------------
(* Characters and strings                                                  *)

Whitespace == {" ", "\n", "\t"}

\* str.strip(): drop leading and trailing whitespace
RECURSIVE lstrip(_)
lstrip(s) == IF s # <<>> /\ Head(s) \in Whitespace THEN lstrip(Tail(s)) ELSE s

RECURSIVE rstrip(_)
rstrip(s) ==
    IF s # <<>> /\ s[Len(s)] \in Whitespace THEN rstrip(SubSeq(s, 1, Len(s) - 1)) ELSE s

strip(s) == rstrip(lstrip(s))

\* sep.join(parts)
RECURSIVE join(_, _)
join(sep, parts) ==
    IF parts = <<>> THEN <<>>
    ELSE IF Len(parts) = 1 THEN parts[1]
    ELSE parts[1] \o sep \o join(sep, Tail(parts))

\* a string of n copies of the character c
Repeat(c, n) == [k \in 1..n |-> c]

-----------------------------------------------------------------------------
(* srt_time                                                                *)

Digit(d) == CASE d = 0 -> "0" [] d = 1 -> "1" [] d = 2 -> "2" [] d = 3 -> "3"
              [] d = 4 -> "4" [] d = 5 -> "5" [] d = 6 -> "6" [] d = 7 -> "7"
              [] d = 8 -> "8" [] d = 9 -> "9"

\* str(n) for n >= 0
RECURSIVE str(_)
str(n) == IF n < 10 THEN <<Digit(n)>> ELSE str(n \div 10) \o <<Digit(n % 10)>>

\* f"{n:0{w}d}": zero padded to at least w digits
ZeroPad(n, w) ==
    LET d == str(n) IN IF Len(d) >= w THEN d ELSE Repeat("0", w - Len(d)) \o d

\* a mutant of round: ties go away from zero
round_half_up(x) ==
    LET fl == x \div TicksPerMs
        rem == x % TicksPerMs
    IN  IF 2 * rem >= TicksPerMs THEN fl + 1 ELSE fl

\* round(x) of Python 3 for x >= 0 ticks: the nearest millisecond, a tie to the even one
round(x) ==
    LET fl == x \div TicksPerMs
        rem == x % TicksPerMs
    IN  IF 2 * rem < TicksPerMs THEN fl
        ELSE IF 2 * rem > TicksPerMs THEN fl + 1
        ELSE IF fl % 2 = 0 THEN fl ELSE fl + 1

srt_time(sec) ==
    LET clamped == IF sec < 0 THEN 0 ELSE sec
        ms0 == round(clamped)
        h == ms0 \div 3600000
        ms1 == ms0 % 3600000
        m == ms1 \div 60000
        ms2 == ms1 % 60000
        s == ms2 \div 1000
        ms3 == ms2 % 1000
    IN  ZeroPad(h, 2) \o <<":">> \o ZeroPad(m, 2) \o <<":">> \o ZeroPad(s, 2)
            \o <<",">> \o ZeroPad(ms3, 3)

-----------------------------------------------------------------------------
(* tokens_to_text and build_srt_from_subwords                              *)

\* a mutant of tokens_to_text: the tokens are joined but not trimmed
tokens_to_text_raw(tokens) == join(<<>>, tokens)

tokens_to_text(tokens) == strip(join(<<>>, tokens))

\* the locals of build_srt_from_subwords before the loop
EmptyBuf == [cur_tokens |-> <<>>, cur_start |-> None, cur_last |-> None, entries |-> <<>>]

\* a mutant of the loop body: the token that reaches a threshold is held back
\* and opens the next buffer
LoopBodyHoldBack(st, sw, segment_offset) ==
    LET t == sw.seconds + segment_offset
        toks == Append(st.cur_tokens, sw.token)
        text == tokens_to_text(toks)
    IN  IF st.cur_start = None
        THEN [st EXCEPT !.cur_start = t, !.cur_last = t, !.cur_tokens = <<sw.token>>]
        ELSE IF (t - st.cur_start) >= max_line_sec \/ Len(text) >= max_chars
        THEN [cur_tokens |-> <<sw.token>>, cur_start |-> t, cur_last |-> t,
              entries |-> Append(st.entries,
                  <<st.cur_start, t + pad_end_sec, tokens_to_text(st.cur_tokens)>>)]
        ELSE [st EXCEPT !.cur_last = t, !.cur_tokens = toks]

\* one iteration of "for sw in subwords"
LoopBody(st, sw, segment_offset) ==
    LET t == sw.seconds + segment_offset
        tok == sw.token
    IN  IF st.cur_start = None
        THEN [st EXCEPT !.cur_start = t, !.cur_last = t, !.cur_tokens = <<tok>>]
        ELSE LET toks == Append(st.cur_tokens, tok)
                 text == tokens_to_text(toks)
             IN  IF (t - st.cur_start) >= max_line_sec \/ Len(text) >= max_chars
                 THEN [cur_tokens |-> <<>>, cur_start |-> None, cur_last |-> None,
                       entries |-> Append(st.entries, <<st.cur_start, t + pad_end_sec, text>>)]
                 ELSE [st EXCEPT !.cur_last = t, !.cur_tokens = toks]

\* a mutant of the final flush: the open buffer is dropped
FinalFlushDrop(st) == st.entries

\* the flush after the loop, and the return value
FinalFlush(st) ==
    IF st.cur_tokens # <<>> /\ st.cur_start # None /\ st.cur_last # None
    THEN Append(st.entries,
                <<st.cur_start, st.cur_last + pad_end_sec, tokens_to_text(st.cur_tokens)>>)
    ELSE st.entries

RECURSIVE Loop(_, _, _)
Loop(st, subwords, segment_offset) ==
    IF subwords = <<>> THEN st
    ELSE Loop(LoopBody(st, Head(subwords), segment_offset), Tail(subwords), segment_offset)

build_srt_from_subwords(subwords, segment_offset) ==
    IF subwords = <<>> THEN <<>>
    ELSE FinalFlush(Loop(EmptyBuf, subwords, segment_offset))

-----------------------------------------------------------------------------
(* natural_sort_key and the sort of segment_audio_from_video               *)

\* ord(c) of the characters a segment name is built from
CharCode(c) == CASE c = "." -> 46 [] c = "0" -> 48 [] c = "1" -> 49 [] c = "2" -> 50
                 [] c = "3" -> 51 [] c = "4" -> 52 [] c = "5" -> 53 [] c = "6" -> 54
                 [] c = "7" -> 55 [] c = "8" -> 56 [] c = "9" -> 57 [] c = "_" -> 95
                 [] c = "a" -> 97 [] c = "b" -> 98 [] c = "e" -> 101 [] c = "g" -> 103
                 [] c = "s" -> 115 [] c = "v" -> 118 [] c = "w" -> 119

Digits == {"0", "1", "2", "3", "4", "5", "6", "7", "8", "9"}

\* a < b for two str, as Python compares them: by code point, a proper prefix first
RECURSIVE StrLess(_, _)
StrLess(a, b) ==
    IF b = <<>> THEN FALSE
    ELSE IF a = <<>> THEN TRUE
    ELSE IF Head(a) # Head(b) THEN CharCode(Head(a)) < CharCode(Head(b))
    ELSE StrLess(Tail(a), Tail(b))

\* Path.stem: the name up to its last dot (the whole name when it has none or
\* only a leading one)
RECURSIVE LastDot(_, _)
LastDot(name, k) ==
    IF k <= 1 THEN 0 ELSE IF name[k] = "." THEN k ELSE LastDot(name, k - 1)

stem(name) ==
    LET k == LastDot(name, Len(name)) IN IF k = 0 THEN name ELSE SubSeq(name, 1, k - 1)

\* re.search(r"(\d+)", s).group(1): the first maximal run of digits, <<>> for no match
RECURSIVE TakeDigits(_)
TakeDigits(s) ==
    IF s # <<>> /\ Head(s) \in Digits THEN <<Head(s)>> \o TakeDigits(Tail(s)) ELSE <<>>

RECURSIVE FirstDigitRun(_)
FirstDigitRun(s) ==
    IF s = <<>> THEN <<>>
    ELSE IF Head(s) \in Digits THEN TakeDigits(s)
    ELSE FirstDigitRun(Tail(s))

\* int(d) of a string of decimal digits
RECURSIVE int(_)
int(d) ==
    IF d = <<>> THEN 0
    ELSE 10 * int(SubSeq(d, 1, Len(d) - 1)) + (CharCode(d[Len(d)]) - 48)

\* a mutant of natural_sort_key: the digits are not read, names sort lexically
natural_sort_key_lexical(p) == <<0, p>>

natural_sort_key(p) ==
    LET m == FirstDigitRun(stem(p)) IN <<IF m # <<>> THEN int(m) ELSE 0 - 1, p>>

\* k1 < k2 for two (int, str) tuples
KeyLess(k1, k2) == k1[1] < k2[1] \/ (k1[1] = k2[1] /\ StrLess(k1[2], k2[2]))

\* sorted(files, key=natural_sort_key)
RECURSIVE sorted(_)
sorted(files) ==
    IF files = {} THEN <<>>
    ELSE LET first == CHOOSE p \in files :
                 \A q \in files \ {p} : KeyLess(natural_sort_key(p), natural_sort_key(q))
         IN  <<first>> \o sorted(files \ {first})

\* the name "seg_" + mid + ".wav"
SegName(mid) == <<"s", "e", "g", "_">> \o mid \o <<".", "w", "a", "v">>

\* "seg_%06d.wav" % n, the name ffmpeg's segment muxer gives its n-th output
FfmpegName(n) == SegName(ZeroPad(n, 6))

-----------------------------------------------------------------------------
(* Bounds and input sets                                                   *)

\* the most segment files ffmpeg writes in a run of the pipeline
MaxSegs == 2
\* the most subwords of one build_srt_from_subwords call explored token by token
MaxSubwords == 4
\* the most files of a directory handed to the sort
MaxFiles == 3
\* srt_time is called on every tick count from -4 to MaxSmallTicks
MaxSmallTicks == 40

Sec(n) == n * TicksPerSec

\* --segment-sec values (25 is the default)
SegmentSecs == {20, 25}

Sw(t, tok) == [seconds |-> t, token |-> tok]

\* ret.text of one segment
Texts == { <<>>, <<" ", "\n">>, <<"a">>, <<" ", "b", " ", "c", "\n">> }

\* ret.subwords of one segment of nominal length d ticks in the pipeline runs:
\* none, a blank token, a line closed by the duration threshold and one left
\* open, a token stamped at the nominal end of the segment, and a token stamped
\* 10 ms past it (the cut ffmpeg makes falls on a packet boundary, and the
\* recognizer's stamps are not bounded by the nominal length)
Streams(d) == { <<>>,
                <<Sw(0, <<" ">>)>>,
                <<Sw(Sec(1), <<"A">>), Sw(Sec(5), <<"B">>), Sw(Sec(6), <<"C">>)>>,
                <<Sw(d, <<"D">>)>>,
                <<Sw(d + 10 * TicksPerMs, <<"E">>)>> }

Results(d) == [text : Texts, subwords : Streams(d)]

\* what ffmpeg leaves in seg_dir: n files seg_000000.wav, seg_000001.wav, ...
FfmpegDirs == { {FfmpegName(k) : k \in 0..(n - 1)} : n \in 0..MaxSegs }

\* file names matching seg_*.wav handed to the sort on its own
CatalogNames == { SegName(<<"0", "0", "0", "0", "0", "1">>),
                  SegName(<<"0", "0", "0", "0", "0", "2">>),
                  SegName(<<"0", "0", "0", "0", "0", "3">>),
                  SegName(<<"1", "0">>), SegName(<<"9">>), SegName(<<"0", "9">>),
                  SegName(<<"a">>), SegName(<<"a", "2", "b", "1", "0">>),
                  SegName(<<"b", ".", "1">>), SegName(<<>>) }

CatalogDirs == { d \in SUBSET CatalogNames : Cardinality(d) <= MaxFiles }

CatalogResults == { [text |-> <<"a">>, subwords |-> <<>>] }

\* tokens and relative times of the call explored token by token
AsmTokens == { <<"A">>, <<"B">>, <<"C">>, <<"D">>, <<" ">>, Repeat("x", 25) }
AsmTimes == { 0, Sec(1), Sec(2), Sec(5) }
AsmOffsets == { 0, Sec(25) }

\* arguments of srt_time: around zero, around the roll-over of each field, the
\* value 3661.2005 s, and past 24 hours
TimeBases == { Sec(1) - 6, Sec(60) - 6, Sec(3600) - 6, Sec(3661) + 798, Sec(90000) - 6 }
TimeInputs == (0 - 4)..MaxSmallTicks \cup { b + d : b \in TimeBases, d \in 0..8 }

NoFile == <<"<no file>">>
Partial == <<"<partial>">>
NoStamp == <<"<not called>">>

-----------------------------------------------------------------------------
(* main                                                                    *)

MainInit ==
    /\ pc = "start"
    /\ err = "none"
    /\ keep_temp \in BOOLEAN
    /\ segment_sec \in SegmentSecs
    /\ dir = {}
    /\ segs = <<>>
    /\ i = 0
    /\ rets = <<>>
    /\ all_text_parts = <<>>
    /\ srt_entries = <<>>
    /\ out_txt = NoFile
    /\ out_srt = NoFile
    /\ tmp = "none"
    /\ dst \in {"absent", "stale"}

MainIdle ==
    /\ pc = "idle" /\ err = "none" /\ keep_temp = FALSE /\ segment_sec = 25
    /\ dir = {} /\ segs = <<>> /\ i = 0 /\ rets = <<>> /\ all_text_parts = <<>>
    /\ srt_entries = <<>> /\ out_txt = NoFile /\ out_srt = NoFile
    /\ tmp = "none" /\ dst = "absent"

AsmInit ==
    /\ asm_pc = "loop"
    /\ asm_offset \in AsmOffsets
    /\ asm_subwords = <<>>
    /\ asm = EmptyBuf

AsmIdle ==
    /\ asm_pc = "idle" /\ asm_offset = 0 /\ asm_subwords = <<>> /\ asm = EmptyBuf

TimeInit == seconds \in TimeInputs /\ stamp = NoStamp

TimeIdle == seconds = 0 /\ stamp = NoStamp

\* a raise inside the with block: TemporaryDirectory.__exit__ runs next
Raise(e) == pc' = "raising" /\ err' = e

\* video_path.exists() is false: FileNotFoundError, before anything is acquired
VideoMissing ==
    /\ pc = "start"
    /\ pc' = "failed" /\ err' = "MissingInput"
    /\ UNCHANGED <<keep_temp, segment_sec, dir, segs, i, rets, all_text_parts,
                   srt_entries, out_txt, out_srt, tmp, dst>>
    /\ UNCHANGED <<asmVars, timeVars>>

\* load_model, then entering "with tempfile.TemporaryDirectory()" and seg_dir.mkdir
LoadModel ==
    /\ pc = "start"
    /\ \/ pc' = "failed" /\ err' = "ModelLoad" /\ tmp' = tmp
       \/ pc' = "segment" /\ err' = err /\ tmp' = "exists"
    /\ UNCHANGED <<keep_temp, segment_sec, dir, segs, i, rets, all_text_parts,
                   srt_entries, out_txt, out_srt, dst>>
    /\ UNCHANGED <<asmVars, timeVars>>

\* segment_audio_from_video fails before the sort: no ffmpeg, or ffmpeg exits nonzero
SegmentationFails ==
    /\ pc = "segment"
    /\ Raise("Segmentation")
    /\ UNCHANGED <<keep_temp, segment_sec, dir, segs, i, rets, all_text_parts,
                   srt_entries, out_txt, out_srt, tmp, dst>>
    /\ UNCHANGED <<asmVars, timeVars>>

\* segment_audio_from_video when ffmpeg left the files `produced` in seg_dir
segment_audio_from_video(produced) ==
    /\ pc = "segment"
    /\ dir' = produced
    /\ LET sorted_segs == sorted(produced)
       IN  IF sorted_segs = <<>>
           THEN Raise("NoSegments") /\ segs' = segs
           ELSE pc' = "loop" /\ err' = err /\ segs' = sorted_segs
    /\ UNCHANGED <<keep_temp, segment_sec, i, rets, all_text_parts,
                   srt_entries, out_txt, out_srt, tmp, dst>>
    /\ UNCHANGED <<asmVars, timeVars>>

\* an iteration of the per-segment loop in which audio_from_path or transcribe raises
RecognitionFails ==
    /\ pc = "loop" /\ i < Len(segs)
    /\ Raise("Recognition")
    /\ UNCHANGED <<keep_temp, segment_sec, dir, segs, i, rets, all_text_parts,
                   srt_entries, out_txt, out_srt, tmp, dst>>
    /\ UNCHANGED <<asmVars, timeVars>>

\* a mutant of the offset: the segment's position is not applied
OffsetZero(k) == 0

\* offset = i * float(args.segment_sec), in ticks
OffsetOf(k) == k * Sec(segment_sec)

\* a mutant of the transcript part: the text is kept untrimmed
TextPartsRaw(parts, text) == IF strip(text) # <<>> THEN Append(parts, text) ELSE parts

\* seg_text = ret.text.strip(); if seg_text: all_text_parts.append(seg_text)
TextParts(parts, text) ==
    LET seg_text == strip(text) IN IF seg_text # <<>> THEN Append(parts, seg_text) ELSE parts

\* an iteration of the per-segment loop in which transcribe returns ret
LoopIteration(ret) ==
    /\ pc = "loop" /\ i < Len(segs)
    /\ LET wav_path == segs[i + 1]
           offset == OffsetOf(i)
           new_entries == IF ret.subwords # <<>>
                          THEN build_srt_from_subwords(ret.subwords, offset)
                          ELSE <<>>
       IN  /\ all_text_parts' = TextParts(all_text_parts, ret.text)
           /\ srt_entries' = srt_entries \o new_entries
           /\ rets' = Append(rets, [wav_path |-> wav_path, offset |-> offset,
                                    text |-> ret.text, subwords |-> ret.subwords,
                                    entries |-> new_entries])
    /\ i' = i + 1
    /\ UNCHANGED <<pc, err, keep_temp, segment_sec, dir, segs, out_txt, out_srt, tmp, dst>>
    /\ UNCHANGED <<asmVars, timeVars>>

\* full_text = "\n".join(all_text_parts).strip(); the text written is full_text + "\n"
TxtContent(parts) == strip(join(<<"\n">>, parts)) \o <<"\n">>

\* a mutant of the place of the writes: inside the loop, after the first segment
AfterFirstSegment == i >= 1

\* the statements after the for loop run when every segment has been consumed
AfterLoop == i = Len(segs)

\* out_txt.write_text: after the loop; a failed write leaves no file or a partial one
WriteTxt ==
    /\ pc = "loop" /\ AfterLoop
    /\ \/ out_txt' = TxtContent(all_text_parts) /\ pc' = "write_srt" /\ err' = err
       \/ out_txt' \in {NoFile, Partial} /\ Raise("WriteTxt")
    /\ UNCHANGED <<keep_temp, segment_sec, dir, segs, i, rets, all_text_parts,
                   srt_entries, out_srt, tmp, dst>>
    /\ UNCHANGED <<asmVars, timeVars>>

\* the lines list built by "for idx, (st, ed, txt) in enumerate(srt_entries, start=1)"
RECURSIVE SrtLines(_, _)
SrtLines(entries, idx) ==
    IF entries = <<>> THEN <<>>
    ELSE LET e == Head(entries)
         IN  IF e[3] = <<>> THEN SrtLines(Tail(entries), idx + 1)
             ELSE << str(idx), srt_time(e[1]) \o <<" ", "-", "-", ">", " ">> \o srt_time(e[2]),
                     e[3], <<>> >> \o SrtLines(Tail(entries), idx + 1)

\* "\n".join(lines).strip() + "\n"
SrtContent(entries) == strip(join(<<"\n">>, SrtLines(entries, 1))) \o <<"\n">>

\* out_srt.write_text
WriteSrt ==
    /\ pc = "write_srt"
    /\ \/ out_srt' = SrtContent(srt_entries) /\ pc' = "keep_temp" /\ err' = err
       \/ out_srt' \in {NoFile, Partial} /\ Raise("WriteSrt")
    /\ UNCHANGED <<keep_temp, segment_sec, dir, segs, i, rets, all_text_parts,
                   srt_entries, out_txt, tmp, dst>>
    /\ UNCHANGED <<asmVars, timeVars>>

\* "if args.keep_temp": rmtree of an existing dst, then copytree(work, dst); a
\* failure leaves dst as it was (rmtree failed), absent or partly copied
KeepTemp ==
    /\ pc = "keep_temp"
    /\ IF keep_temp
       THEN \/ dst' = "copy" /\ pc' = "exit" /\ err' = err
            \/ dst' \in {dst, "absent", "partial"} /\ Raise("KeepTemp")
       ELSE dst' = dst /\ pc' = "exit" /\ err' = err
    /\ UNCHANGED <<keep_temp, segment_sec, dir, segs, i, rets, all_text_parts,
                   srt_entries, out_txt, out_srt, tmp>>
    /\ UNCHANGED <<asmVars, timeVars>>

\* a mutant of the cleanup: the directory is removed at the end of the block
\* only, not when an exception leaves it
CleanupAtEndOnly(p) == IF p = "exit" THEN "deleted" ELSE "exists"

\* TemporaryDirectory.__exit__ removes the directory however the block is left
Cleanup(p) == "deleted"

\* leaving the with block, normally or by an exception: the directory is removed
ExitTemp ==
    /\ pc \in {"exit", "raising"}
    /\ tmp' = Cleanup(pc)
    /\ pc' = IF pc = "exit" THEN "done" ELSE "failed"
    /\ UNCHANGED <<err, keep_temp, segment_sec, dir, segs, i, rets, all_text_parts,
                   srt_entries, out_txt, out_srt, dst>>
    /\ UNCHANGED <<asmVars, timeVars>>

Segment == \E produced \in FfmpegDirs : segment_audio_from_video(produced)
Recognize == \E ret \in Results(Sec(segment_sec)) : LoopIteration(ret)

Next ==
    \/ VideoMissing \/ LoadModel \/ SegmentationFails \/ Segment
    \/ RecognitionFails \/ Recognize \/ WriteTxt \/ WriteSrt \/ KeepTemp \/ ExitTemp

Init == MainInit /\ AsmIdle /\ TimeIdle

Spec == Init /\ [][Next]_vars

\* the pipeline over directories with arbitrary seg_*.wav names
SegmentCatalog == \E produced \in CatalogDirs : segment_audio_from_video(produced)
RecognizeCatalog == \E ret \in CatalogResults : LoopIteration(ret)

NextCatalog ==
    \/ VideoMissing \/ LoadModel \/ SegmentationFails \/ SegmentCatalog
    \/ RecognitionFails \/ RecognizeCatalog \/ WriteTxt \/ WriteSrt \/ KeepTemp
    \/ ExitTemp

SpecCatalog == Init /\ [][NextCatalog]_vars

-----------------------------------------------------------------------------
(* one call of build_srt_from_subwords, an iteration of its loop per step  *)

LastSeconds == IF asm_subwords = <<>> THEN 0 ELSE asm_subwords[Len(asm_subwords)].seconds

\* "for sw in subwords": the recognizer stamps tokens in non-decreasing time
AsmLoop ==
    /\ asm_pc = "loop" /\ Len(asm_subwords) < MaxSubwords
    /\ \E t \in AsmTimes, tok \in AsmTokens :
          /\ t >= LastSeconds
          /\ asm' = LoopBody(asm, Sw(t, tok), asm_offset)
          /\ asm_subwords' = Append(asm_subwords, Sw(t, tok))
    /\ UNCHANGED <<asm_pc, asm_offset>>
    /\ UNCHANGED <<mainVars, timeVars>>

\* the end of the loop: the final flush and the return
AsmReturn ==
    /\ asm_pc = "loop"
    /\ asm' = [cur_tokens |-> <<>>, cur_start |-> None, cur_last |-> None,
               entries |-> IF asm_subwords = <<>> THEN <<>> ELSE FinalFlush(asm)]
    /\ asm_pc' = "returned"
    /\ UNCHANGED <<asm_offset, asm_subwords>>
    /\ UNCHANGED <<mainVars, timeVars>>

NextAssemble == AsmLoop \/ AsmReturn

InitAssemble == MainIdle /\ AsmInit /\ TimeIdle

SpecAssemble == InitAssemble /\ [][NextAssemble]_vars

-----------------------------------------------------------------------------
(* one call of srt_time                                                    *)

CallSrtTime ==
    /\ stamp = NoStamp
    /\ stamp' = srt_time(seconds)
    /\ UNCHANGED <<seconds, mainVars, asmVars>>

NextTime == CallSrtTime

InitTime == MainIdle /\ AsmIdle /\ TimeInit

SpecTime == InitTime /\ [][NextTime]_vars

-----------------------------------------------------------------------------
(* Properties of build_srt_from_subwords (checked under SpecAssemble)      *)

C1Stream == <<Sw(0, <<"A">>), Sw(Sec(1), <<"B">>), Sw(Sec(2), <<"C">>), Sw(Sec(5), <<"D">>)>>

C1Case == asm_pc = "returned" /\ asm_offset = 0 /\ asm_subwords = C1Stream

\* C1 as stated: for the stream (0.0,A) (1.0,B) (2.0,C) (5.0,D) at offset 0 the
\* call returns two entries, (0.0, 5.25, "ABC") and then (5.0, 5.25, "D").
C1_TwoEntries ==
    C1Case => asm.entries = << <<0, Sec(5) + pad_end_sec, <<"A", "B", "C">> >>,
                               <<Sec(5), Sec(5) + pad_end_sec, <<"D">> >> >>

\* C1 amended: for that stream the call returns the single entry
\* (0.0, 5.25, "ABCD"): the token that reaches the duration threshold is part
\* of the entry it closes, and nothing is left for the final flush.
C1_OneEntry ==
    C1Case => /\ asm.entries = << <<0, Sec(5) + pad_end_sec, <<"A", "B", "C", "D">> >> >>
              /\ build_srt_from_subwords(C1Stream, 0) = asm.entries

C1_Witness == C1Case /\ Len(asm.entries) = 1

\* the token consumed by a step of the loop, and the buffer it is appended to
StepToken == asm_subwords'[Len(asm_subwords')]
StepTime == StepToken.seconds + asm_offset
StepTokens == Append(asm.cur_tokens, StepToken.token)
StepElapsed == StepTime - asm.cur_start
StepFlushed == Len(asm'.entries) = Len(asm.entries) + 1

\* what a step of the loop must do when `meets` says whether the buffer, with
\* the token appended, meets a threshold
StepRule(meets) ==
    Len(asm_subwords') = Len(asm_subwords) + 1 =>
        IF asm.cur_tokens = <<>>
        THEN /\ ~StepFlushed
             /\ asm'.entries = asm.entries
             /\ asm'.cur_tokens = <<StepToken.token>>
        ELSE /\ StepFlushed <=> meets
             /\ StepFlushed => /\ asm'.cur_tokens = <<>>
                               /\ Len(StepTokens) >= 2
                               /\ meets
             /\ ~StepFlushed => /\ asm'.entries = asm.entries
                                /\ asm'.cur_tokens = StepTokens
                                /\ ~meets

RECURSIVE SplitsInto(_, _, _)
SplitsInto(entries, w, offset) ==
    IF entries = <<>> THEN w = <<>>
    ELSE \E n \in 1..Len(w) :
            /\ Head(entries) = << w[1].seconds + offset,
                                  w[n].seconds + offset + pad_end_sec,
                                  strip(join(<<>>, [k \in 1..n |-> w[k].token])) >>
            /\ SplitsInto(Tail(entries), SubSeq(w, n + 1, Len(w)), offset)

\* the open buffer as the entry a flush would make of it
OpenAsEntry ==
    IF asm.cur_tokens = <<>> THEN <<>>
    ELSE << <<asm.cur_start, asm.cur_last + pad_end_sec,
              strip(join(<<>>, asm.cur_tokens))>> >>

\* C10: no token is lost, duplicated or reordered: the entries returned split
\* the stream into consecutive runs in order, each entry starting at its first
\* token's absolute time and ending at its last token's plus the pad; the
\* buffer is empty when the call starts and nothing is left in it at the
\* return; while the loop runs, entries plus the open buffer hold exactly the
\* tokens consumed.
C10_Partition ==
    /\ asm_subwords = <<>> /\ asm_pc = "loop" => asm = EmptyBuf
    /\ asm_pc = "loop" => /\ SplitsInto(asm.entries \o OpenAsEntry, asm_subwords, asm_offset)
                          /\ Len(asm.cur_tokens) <= Len(asm_subwords)
    /\ asm_pc = "returned" =>
          /\ asm.cur_tokens = <<>>
          /\ SplitsInto(asm.entries, asm_subwords, asm_offset)
          /\ asm.entries = build_srt_from_subwords(asm_subwords, asm_offset)

\* a call that flushed in the loop and again at the end
C10_Witness ==
    /\ asm_pc = "returned"
    /\ Len(asm_subwords) = 3
    /\ Len(asm.entries) = 2
    /\ asm.entries[2][1] = asm_subwords[3].seconds + asm_offset
    /\ asm_offset > 0

-----------------------------------------------------------------------------
(* Properties of srt_time (checked under SpecTime)                         *)

\* the value in milliseconds a "HH:MM:SS,mmm" string encodes
StampHours(st) == int(SubSeq(st, 1, Len(st) - 10))
StampMinutes(st) == int(SubSeq(st, Len(st) - 8, Len(st) - 7))
StampSeconds(st) == int(SubSeq(st, Len(st) - 5, Len(st) - 4))
StampMillis(st) == int(SubSeq(st, Len(st) - 2, Len(st)))
StampValue(st) ==
    StampHours(st) * 3600000 + StampMinutes(st) * 60000 + StampSeconds(st) * 1000
        + StampMillis(st)

\* HH:MM:SS,mmm with at least two digits of hours and fields in range
WellFormed(st) ==
    /\ Len(st) >= 12
    /\ st[Len(st) - 3] = "," /\ st[Len(st) - 6] = ":" /\ st[Len(st) - 9] = ":"
    /\ \A k \in (1..Len(st)) \ {Len(st) - 3, Len(st) - 6, Len(st) - 9} : st[k] \in Digits
    /\ StampMinutes(st) < 60 /\ StampSeconds(st) < 60 /\ StampMillis(st) < 1000

Clamped == IF seconds < 0 THEN 0 ELSE seconds

\* the distance, in ticks, between the encoded value and the argument
StampError == LET d == StampValue(stamp) * TicksPerMs - Clamped IN IF d < 0 THEN 0 - d ELSE d

\* C7 as stated: negative input is clamped to 0; the value is rounded to the
\* nearest millisecond, a tie going away from zero (k + 0.5 ms renders as k + 1
\* for odd and even k alike); the fields add up to the rounded value with
\* minutes < 60, seconds < 60, millis < 1000 and hours not wrapped.
C7_HalfAwayFromZero ==
    stamp # NoStamp =>
        /\ WellFormed(stamp)
        /\ 2 * StampError <= TicksPerMs
        /\ 2 * StampError = TicksPerMs => StampValue(stamp) * TicksPerMs > Clamped

\* C7 amended: the same, except that a tie goes to the even millisecond
\* (k + 0.5 ms renders as k + 1 for odd k and as k for even k).
C7_HalfToEven ==
    stamp # NoStamp =>
        /\ WellFormed(stamp)
        /\ 2 * StampError <= TicksPerMs
        /\ 2 * StampError = TicksPerMs => StampValue(stamp) % 2 = 0

\* 3661.2005 s is a tie above an even millisecond and past one hour
C7_Witness ==
    /\ seconds = Sec(3661) + 802
    /\ stamp = <<"0", "1", ":", "0", "1", ":", "0", "1", ",", "2", "0", "0">>

-----------------------------------------------------------------------------
(* Properties of main (checked under Spec)                                 *)

\* a file that has been written completely
Written(f) == f # NoFile /\ f # Partial

\* the lines of a text file that ends with a newline (none for an empty body)
RECURSIVE SplitLines(_, _)
SplitLines(s, cur) ==
    IF s = <<>> THEN <<cur>>
    ELSE IF Head(s) = "\n" THEN <<cur>> \o SplitLines(Tail(s), <<>>)
    ELSE SplitLines(Tail(s), Append(cur, Head(s)))

FileLines(f) ==
    LET body == SubSeq(f, 1, Len(f) - 1) IN IF body = <<>> THEN <<>> ELSE SplitLines(body, <<>>)

\* the numbers heading the blocks of a subtitle file: the first line, and each
\* line that follows a blank one
RECURSIVE NumbersFrom(_, _)
NumbersFrom(ls, k) ==
    IF k > Len(ls) THEN <<>>
    ELSE IF k = 1 \/ ls[k - 1] = <<>> THEN <<int(ls[k])>> \o NumbersFrom(ls, k + 1)
    ELSE NumbersFrom(ls, k + 1)

BlockNumbers(f) == NumbersFrom(FileLines(f), 1)

Retained == { k \in 1..Len(srt_entries) : srt_entries[k][3] # <<>> }

\* C2: the block numbers written to the subtitle file are 1, 2, ..., k in
\* order, k being the number of entries with non-empty text: entries with empty
\* text are dropped before numbering.
C2_ContiguousNumbers ==
    Written(out_srt) => BlockNumbers(out_srt) = [n \in 1..Cardinality(Retained) |-> n]

PreWriteErrors == {"MissingInput", "ModelLoad", "Segmentation", "NoSegments", "Recognition"}

\* C3 as stated: in every run in which any step fails, neither the transcript
\* nor the subtitle file has been written; both are written only in runs where
\* the whole loop and both writes succeed.
C3_AllOrNothing ==
    /\ pc = "failed" => ~Written(out_txt) /\ ~Written(out_srt)
    /\ Written(out_txt) \/ Written(out_srt) => Len(rets) = Len(segs) /\ segs # <<>>

\* C3 amended: in every run in which a step before the writes fails (missing
\* input, model load, segmentation, recognition of any segment) neither file
\* exists; the transcript is written only after the whole per-segment loop, the
\* subtitle file only after the transcript, and a run that completes has
\* written both.  A run that fails at the subtitle write or at the --keep-temp
\* copy leaves the files it has already written.
C3_NoOutputBeforeLoopEnd ==
    /\ err \in PreWriteErrors => out_txt = NoFile /\ out_srt = NoFile
    /\ out_txt # NoFile \/ out_srt # NoFile => Len(rets) = Len(segs) /\ segs # <<>>
    /\ out_srt # NoFile => Written(out_txt)
    /\ err = "WriteTxt" => out_srt = NoFile
    /\ pc = "done" => Written(out_txt) /\ Written(out_srt) /\ err = "none"

\* a run that failed in the recognition of its second segment
C3_Witness ==
    /\ pc = "failed" /\ err = "Recognition"
    /\ Len(rets) = 1 /\ Len(segs) = 2
    /\ srt_entries # <<>> /\ all_text_parts # <<>>
    /\ out_txt = NoFile /\ out_srt = NoFile

SortedByStart(entries) ==
    \A a, b \in 1..Len(entries) : a < b => entries[a][1] <= entries[b][1]

EntriesOf(k) == { rets[k].entries[n] : n \in 1..Len(rets[k].entries) }

\* every token of the k-th segment is stamped within the segment's nominal length
WithinSegment(k) ==
    \A n \in 1..Len(rets[k].subwords) : rets[k].subwords[n].seconds <= Sec(segment_sec)

\* C4 as stated: with offset = position * segment_duration and token times
\* that are non-negative and non-decreasing within a segment, every entry of an
\* earlier segment starts no later than every entry of a later segment, and the
\* accumulated entries are in non-decreasing start order.
C4_Ordered ==
    /\ \A a, b \in 1..Len(rets) : a < b =>
          \A e \in EntriesOf(a), f \in EntriesOf(b) : e[1] <= f[1]
    /\ SortedByStart(srt_entries)

\* C4 amended: the same, provided also that no token of the earlier segment is
\* stamped later than segment_duration after the start of its segment.
C4_OrderedWithinSegments ==
    /\ \A a, b \in 1..Len(rets) : a < b /\ WithinSegment(a) =>
          \A e \in EntriesOf(a), f \in EntriesOf(b) : e[1] <= f[1]
    /\ (\A k \in 1..Len(rets) : WithinSegment(k)) => SortedByStart(srt_entries)

\* a token at the very end of the first segment and one at the very start of
\* the second: the two entries start at the same time
C4_Witness ==
    /\ Len(rets) = 2
    /\ rets[1].subwords = <<Sw(Sec(segment_sec), <<"D">>)>>
    /\ rets[2].subwords = <<Sw(0, <<" ">>)>>
    /\ Len(srt_entries) = 2
    /\ srt_entries[1][1] = srt_entries[2][1]

\* the trimmed texts of the segments whose text is not empty after trimming
RECURSIVE RetainedTexts(_)
RetainedTexts(k) ==
    IF k > Len(rets) THEN <<>>
    ELSE IF \A n \in 1..Len(rets[k].text) : rets[k].text[n] \in Whitespace
    THEN RetainedTexts(k + 1)
    ELSE <<strip(rets[k].text)>> \o RetainedTexts(k + 1)

\* the strings of parts, a newline between each two, and a newline at the end
RECURSIVE Paragraphs(_)
Paragraphs(parts) ==
    IF parts = <<>> THEN <<"\n">>
    ELSE IF Len(parts) = 1 THEN parts[1] \o <<"\n">>
    ELSE parts[1] \o <<"\n">> \o Paragraphs(Tail(parts))

\* C5: the transcript file holds the trimmed texts of exactly the segments
\* whose text is not empty after trimming, in segment order, a single newline
\* between each two and one newline at the end; a segment with empty or
\* whitespace-only text adds nothing, whether or not it has tokens.
C5_Transcript ==
    Written(out_txt) =>
        /\ Len(rets) = Len(segs)
        /\ out_txt = Paragraphs(RetainedTexts(1))

\* a blank segment with tokens, then a segment with text and no tokens
C5_Witness ==
    /\ Written(out_txt)
    /\ Len(rets) = 2
    /\ rets[1].text = <<" ", "\n">> /\ rets[1].subwords # <<>>
    /\ rets[2].text = <<" ", "b", " ", "c", "\n">> /\ rets[2].subwords = <<>>
    /\ out_txt = <<"b", " ", "c", "\n">>

Ended == pc \in {"done", "failed"}

\* C6 as stated: once acquired, the temporary directory is deleted on every
\* exit path; and whenever --keep-temp was given, a copy of it exists at the
\* durable location before it is released.
C6_AlwaysCopied ==
    /\ Ended => tmp # "exists"
    /\ tmp = "deleted" /\ keep_temp => dst = "copy"

\* C6 amended: once acquired, the temporary directory is deleted on every exit
\* path; when --keep-temp was given and the run reaches the end of the block
\* without an error (both files written, the copy made), a copy exists at the
\* durable location before the directory is released; a run that fails makes
\* no copy.
C6_CopiedOnSuccess ==
    /\ Ended => tmp # "exists"
    /\ tmp = "deleted" /\ keep_temp /\ err = "none" => dst = "copy"
    /\ pc \in {"exit", "done"} /\ keep_temp => dst = "copy"
    /\ dst = "copy" => /\ keep_temp /\ tmp # "none"
                       /\ Written(out_txt) /\ Written(out_srt)
                       /\ err = "none"

\* a failed run with --keep-temp whose directory was deleted
C6_Witness ==
    /\ pc = "failed" /\ keep_temp /\ err = "Recognition"
    /\ tmp = "deleted" /\ dst # "copy"

-----------------------------------------------------------------------------
(* Properties of the segment catalog (checked under SpecCatalog)           *)

\* the integer value of the first run of digits of a file name, -1 without one
NameIndex(name) ==
    LET run == FirstDigitRun(name) IN IF run = <<>> THEN 0 - 1 ELSE int(run)

InOrder(p, q) ==
    \/ NameIndex(p) < NameIndex(q)
    \/ NameIndex(p) = NameIndex(q) /\ StrLess(p, q)

Seg1 == SegName(<<"0", "0", "0", "0", "0", "1">>)
Seg2 == SegName(<<"0", "0", "0", "0", "0", "2">>)
Seg3 == SegName(<<"0", "0", "0", "0", "0", "3">>)

SegmentStepDone == pc \notin {"start", "segment"} /\ err \notin {"MissingInput", "ModelLoad", "Segmentation"}

\* C8: the segment files are ordered by the integer value of the first run of
\* digits of the name (files without digits first, ties by name), the segment
\* at 0-based position p is processed with offset p * segment_sec whatever the
\* number in its name (seg_000003, seg_000001, seg_000002 at 25 s: order 1, 2, 3
\* with offsets 0, 25, 50), and an empty set of files is a fatal error.
C8_Catalog ==
    /\ SegmentStepDone =>
          /\ Len(segs) = Cardinality(dir)
          /\ \A p \in 1..Len(segs) : segs[p] \in dir
          /\ \A p, q \in 1..Len(segs) : p < q => InOrder(segs[p], segs[q])
          /\ dir = {} <=> err = "NoSegments"
          /\ err = "NoSegments" => pc \in {"raising", "failed"} /\ rets = <<>>
    /\ \A k \in 1..Len(rets) :
          /\ rets[k].wav_path = segs[k]
          /\ rets[k].offset = (k - 1) * segment_sec * TicksPerSec
    /\ dir = {Seg1, Seg2, Seg3} => segs = <<Seg1, Seg2, Seg3>>

\* the directory of the example, processed to the end at 25 s
C8_Witness ==
    /\ dir = {Seg3, Seg1, Seg2} /\ segment_sec = 25
    /\ Len(rets) = 3
    /\ rets[1].wav_path = Seg1 /\ rets[1].offset = 0
    /\ rets[2].wav_path = Seg2 /\ rets[2].offset = Sec(25)
    /\ rets[3].wav_path = Seg3 /\ rets[3].offset = Sec(50)

====
